---- MODULE Spec2Model ----
(***************************************************************************)
(* oldqtt: the MQTT server manager (src/src/mqtt_servermanager.rs) and the *)
(* places of the application (src/src/app.rs) that drive it.               *)
(*                                                                         *)
(* The manager owns a HashMap<u32, Server> and one mpsc channel.  Every    *)
(* Server owns a rumqttc Client handle, the set current_subs and a thread  *)
(* running Server::poll_iter over the rumqttc Connection.  rumqttc itself  *)
(* is an external crate: the result of each call on a Client handle and    *)
(* the items its Connection iterator yields are inputs of the model.       *)
(***************************************************************************)
EXTENDS Integers, Sequences, FiniteSets, TLC

\* ------------------------------------------------------------------ bounds
MaxKey == 2          \* connection keys (u32 ids) are 1..MaxKey
MaxTopic == 2        \* topic filters are 1..MaxTopic
MaxSubsLen == 2      \* longest desired subscription list handed to sync_subs
MaxSessions == 2     \* Server::connect calls per run (one thread each)
MaxQueue == 2        \* events buffered in the mpsc channel at a time
MaxPayload == 1      \* payloads are 1..MaxPayload
MaxRecv == 2         \* publishes one Connection iterator yields per run

Keys == 1..MaxKey
Topics == 1..MaxTopic
Payloads == 1..MaxPayload
Sids == 1..MaxSessions

\* Vec<String> values of MqttServer::subscriptions: duplicates are possible,
\* the "Add" button pushes without looking (app.rs:274-277).
SubsLists == UNION {[1..n -> Topics] : n \in 0..MaxSubsLen}

Range(s) == {s[i] : i \in 1..Len(s)}

\* The orders in which iterating a HashSet can yield its elements.
Orderings(S) == {s \in [1..Cardinality(S) -> S] : Range(s) = S}

VARIABLES
    servers,   \* MqttServerManager::servers: the entries of the HashMap, each
               \* [id, sid, current_subs, synced]; sid names the Server value (its
               \* Client handle and its thread)
    loops,     \* per Server ever created: its poll_iter thread, the id the
               \* thread captured, and whether a Disconnect request waits in
               \* the Client's request channel
    channel,   \* the mpsc channel channel_tx -> channel_rx
    entries,   \* MqttServers::servers: the entries of the application's own
               \* HashMap, each [id, conf]
    received,  \* per thread: the publishes its iterator yielded, in order
               \* (observation)
    drained,   \* what pull_events returned so far, in order (observation)
    last,      \* the last call or thread step and what it did (observation)
    prev       \* what the step before it was, if a sync_subs (observation)

vars == <<servers, loops, channel, entries, received, drained, last, prev>>

\* ------------------------------------------------------------ observation
NoStep ==
    [op |-> "new", id |-> 0, sid |-> 0, subs |-> <<>>, before |-> {},
     to_sub |-> <<>>, to_unsub |-> <<>>, calls |-> <<>>, ok |-> TRUE,
     item |-> "", events |-> <<>>, replaced |-> 0, again |-> FALSE,
     valid |-> TRUE, first |-> FALSE]

NoPrev == [sync |-> FALSE, sid |-> 0, subs |-> <<>>, ok |-> TRUE, failed |-> {}]

\* The topics of the calls in a call log, and of those that returned an error.
CallTopics(calls) == {calls[i].topic : i \in 1..Len(calls)}

FailedTopics(calls) == {calls[i].topic : i \in {j \in 1..Len(calls) : ~calls[j].ok}}

\* What prev keeps of a step: a sync_subs that reached a Server, or nothing.
Summary(l) ==
    IF l.op = "sync_subs" /\ l.sid # 0
    THEN [sync |-> TRUE, sid |-> l.sid, subs |-> l.subs, ok |-> l.ok,
          failed |-> FailedTopics(l.calls)]
    ELSE NoPrev

\* ------------------------------------------------------------- HashMap<u32, Server>
contains_key(m, id) == \E e \in m : e.id = id

get(m, id) == CHOOSE e \in m : e.id = id

\* Variant of get_mut: with no entry under id, some other entry is given.
get_mut_any(m, id) ==
    IF contains_key(m, id) THEN {get(m, id)}
    ELSE IF m = {} THEN {} ELSE {CHOOSE e \in m : TRUE}

\* HashMap::get and HashMap::get_mut, an Option: the entry under id or none.
get_mut(m, id) == IF contains_key(m, id) THEN {get(m, id)} ELSE {}

\* Variant of HashMapInsert: an insert that leaves the old entry in place.
HashMapInsertKeep(m, e) == m \cup {e}

\* HashMap::insert: the value under an equal key is replaced (and dropped).
HashMapInsert(m, e) == {x \in m : x.id # e.id} \cup {e}

\* Variant of HashMapRemove: the test on the key inverted.
HashMapRemoveOthers(m, id) == {x \in m : x.id = id}

\* HashMap::remove: the entry under the key goes, every other entry stays.
HashMapRemove(m, id) == {x \in m : x.id # id}

\* ------------------------------------------------------------- Server::sync_subs
\* The state threaded through sync_subs: the HashSet current_subs, the calls
\* made on the Client handle so far, and the Result of the last call.
Start(cur) == [cur |-> cur, calls |-> <<>>, ok |-> TRUE]

Call(op, topic, fails) == [op |-> op, topic |-> topic, ok |-> topic \notin fails]

\* Variant of subscribe: Client::subscribe is called whatever insert returned.
subscribe_unguarded(st, topic, fails) ==
    [cur |-> st.cur \cup {topic},
     calls |-> Append(st.calls, Call("subscribe", topic, fails)),
     ok |-> topic \notin fails]

\* Server::subscribe.  HashSet::insert happens first and tells whether the
\* topic was new; only then is Client::subscribe called, and its error is
\* returned with the topic already inserted.
subscribe(st, topic, fails) ==
    IF topic \notin st.cur
    THEN [cur |-> st.cur \cup {topic},
          calls |-> Append(st.calls, Call("subscribe", topic, fails)),
          ok |-> topic \notin fails]
    ELSE [st EXCEPT !.ok = TRUE]

\* Variant of unsubscribe: the call is made, the topic is not taken out.
unsubscribe_keep(st, topic, fails) ==
    IF topic \in st.cur
    THEN [cur |-> st.cur,
          calls |-> Append(st.calls, Call("unsubscribe", topic, fails)),
          ok |-> topic \notin fails]
    ELSE [st EXCEPT !.ok = TRUE]

\* Server::unsubscribe.  HashSet::take removes the topic first; only then is
\* Client::unsubscribe called, and its error is returned with the topic gone.
unsubscribe(st, topic, fails) ==
    IF topic \in st.cur
    THEN [cur |-> st.cur \ {topic},
          calls |-> Append(st.calls, Call("unsubscribe", topic, fails)),
          ok |-> topic \notin fails]
    ELSE [st EXCEPT !.ok = TRUE]

\* subs.iter().filter(|sub| !current_subs.contains(sub)).collect(): a Vec, in
\* the order of subs, duplicates kept.
to_sub(cur, subs) == SelectSeq(subs, LAMBDA sub : sub \notin cur)

\* Variant of to_unsub: the filter without its negation.
to_unsub_inverted(cur, subs) == {sub \in cur : sub \in Range(subs)}

\* current_subs.iter().filter(|sub| !subs.contains(sub)): the topics; the Vec
\* collects them in the HashSet's iteration order.
to_unsub(cur, subs) == {sub \in cur : sub \notin Range(subs)}

\* for sub in to_sub { self.subscribe(sub)?; }
RECURSIVE subscribe_each(_, _, _)
subscribe_each(st, seq, fails) ==
    IF seq = <<>> THEN st
    ELSE LET r == subscribe(st, Head(seq), fails)
         IN IF r.ok THEN subscribe_each(r, Tail(seq), fails) ELSE r

\* for sub in to_unsub { self.unsubscribe(sub)?; }
RECURSIVE unsubscribe_each(_, _, _)
unsubscribe_each(st, seq, fails) ==
    IF seq = <<>> THEN st
    ELSE LET r == unsubscribe(st, Head(seq), fails)
         IN IF r.ok THEN unsubscribe_each(r, Tail(seq), fails) ELSE r

\* Server::sync_subs(subs) on a Server whose current_subs is cur.  unsubs is
\* to_unsub as the Vec the HashSet iteration produced; fails is the set of
\* topics for which the Client handle returns an error.
sync_subs(cur, subs, unsubs, fails) ==
    LET s == subscribe_each(Start(cur), to_sub(cur, subs), fails)
    IN IF s.ok THEN unsubscribe_each(s, unsubs, fails) ELSE s

\* ------------------------------------------------------------- MqttServerManager
\* The sid of the Server the next Server::connect creates.
created == {s \in Sids : loops[s].thread # "NotStarted"}

new_sid == Cardinality(created) + 1

DisconnectCall(ok) == [op |-> "disconnect", topic |-> 0, ok |-> ok]

PublishCall(topic, ok) == [op |-> "publish", topic |-> topic, ok |-> ok]

\* MqttServerManager::connect: Server::connect builds a Server with an empty
\* current_subs, and the map entry under id is inserted or replaced.  synced
\* tells whether sync_subs has been called on the Server (observation).
connect(m, id, sid) ==
    [servers |-> HashMapInsert(m, [id |-> id, sid |-> sid, current_subs |-> {},
                                   synced |-> FALSE]),
     replaced |-> IF contains_key(m, id) THEN get(m, id).sid ELSE 0]

\* Variant of disconnect: the entry is removed only when the handle accepted
\* the disconnect request.
disconnect_if_ok(m, id, ok) ==
    IF contains_key(m, id)
    THEN [servers |-> IF ok THEN HashMapRemove(m, id) ELSE m,
          sid |-> get(m, id).sid, calls |-> <<DisconnectCall(ok)>>]
    ELSE [servers |-> HashMapRemove(m, id), sid |-> 0, calls |-> <<>>]

\* MqttServerManager::disconnect: the entry is removed first; if there was
\* one, Client::disconnect is called on it (ok is what the handle returns, an
\* error is only logged).  sid is 0 when there was no entry.
disconnect(m, id, ok) ==
    IF contains_key(m, id)
    THEN [servers |-> HashMapRemove(m, id),
          sid |-> get(m, id).sid, calls |-> <<DisconnectCall(ok)>>]
    ELSE [servers |-> HashMapRemove(m, id), sid |-> 0, calls |-> <<>>]

\* ------------------------------------------------------------------ actions
Init ==
    /\ servers = {}
    /\ loops = [s \in Sids |-> [thread |-> "NotStarted", id |-> 0,
                               disconnect |-> FALSE, orphan |-> FALSE,
                               sent |-> 0, repaints |-> 0]]
    /\ channel = <<>>
    /\ entries = {}
    /\ received = [s \in Sids |-> <<>>]
    /\ drained = <<>>
    /\ last = NoStep
    /\ prev = NoPrev

\* manager.connect(id, server, ctx): Server::connect spawns the thread that
\* runs poll_iter with the id it was given.  Client::new opens no socket and
\* neither function returns a Result: whether the host can be connected to
\* (valid) changes nothing here.
Connect(id) ==
    /\ new_sid \in Sids
    /\ servers' = connect(servers, id, new_sid).servers
    /\ loops' = [loops EXCEPT ![new_sid] =
                    [thread |-> "Running", id |-> id, disconnect |-> FALSE,
                     orphan |-> FALSE, sent |-> 0, repaints |-> 0]]
    /\ \E valid \in BOOLEAN :
          last' = [NoStep EXCEPT !.op = "connect", !.id = id, !.sid = new_sid,
                      !.replaced = connect(servers, id, new_sid).replaced,
                      !.valid = valid]
    /\ prev' = Summary(last)
    /\ UNCHANGED <<channel, entries, received, drained>>

\* manager.disconnect(id).  A Disconnect request the handle accepted waits in
\* the request channel until the Connection iterator yields it.
Disconnect(id, ok) ==
    LET r == disconnect(servers, id, ok)
    IN /\ servers' = r.servers
       /\ loops' = IF r.sid = 0 THEN loops
                   ELSE [loops EXCEPT ![r.sid].disconnect = @ \/ ok]
       /\ last' = [NoStep EXCEPT !.op = "disconnect", !.id = id, !.sid = r.sid,
                                 !.calls = r.calls,
                                 !.ok = (r.calls = <<>>) \/ ok]
       /\ prev' = Summary(last)
       /\ UNCHANGED <<channel, entries, received, drained>>

\* The topics sync_subs can call the Client handle with: its answers for any
\* other topic are never asked for.
Asked(id, subs) ==
    IF get_mut(servers, id) # {}
    THEN LET cur == (CHOOSE e \in get_mut(servers, id) : TRUE).current_subs
         IN Range(to_sub(cur, subs)) \cup to_unsub(cur, subs)
    ELSE {}

\* edit_windows: if let Some(mqtt_server) = manager.servers_mut().get_mut(id)
\* { mqtt_server.sync_subs(&server.subscriptions.clone()); }
SyncSubs(id, subs, fails) ==
    /\ fails \subseteq Asked(id, subs)
    /\ IF get_mut(servers, id) # {}
       THEN LET e == CHOOSE x \in get_mut(servers, id) : TRUE
            IN \E unsubs \in Orderings(to_unsub(e.current_subs, subs)) :
                 LET r == sync_subs(e.current_subs, subs, unsubs, fails)
                 IN /\ servers' = (servers \ {e}) \cup
                                   {[e EXCEPT !.current_subs = r.cur,
                                              !.synced = TRUE]}
                    /\ last' = [NoStep EXCEPT !.op = "sync_subs", !.id = id,
                                   !.sid = e.sid, !.subs = subs,
                                   !.before = e.current_subs,
                                   !.first = ~e.synced,
                                   !.to_sub = to_sub(e.current_subs, subs),
                                   !.to_unsub = unsubs,
                                   !.calls = r.calls, !.ok = r.ok]
                    /\ prev' = Summary(last)
                    /\ UNCHANGED <<loops, channel, entries, received, drained>>
       ELSE /\ last' = [NoStep EXCEPT !.op = "sync_subs", !.id = id, !.subs = subs]
            /\ prev' = Summary(last)
            /\ UNCHANGED <<servers, loops, channel, entries, received, drained>>

\* windows: if let Some(connected_client) = manager.servers().get(id)
\* { connected_client.publish(topic, payload); }  An error is only logged.
Publish(id, topic, ok) ==
    IF get_mut(servers, id) # {}
    THEN /\ last' = [NoStep EXCEPT !.op = "publish", !.id = id,
                        !.sid = (CHOOSE e \in get_mut(servers, id) : TRUE).sid,
                        !.calls = <<PublishCall(topic, ok)>>, !.ok = ok]
         /\ prev' = Summary(last)
         /\ UNCHANGED <<servers, loops, channel, entries, received, drained>>
    ELSE /\ last' = [NoStep EXCEPT !.op = "publish", !.id = id]
         /\ prev' = Summary(last)
         /\ UNCHANGED <<servers, loops, channel, entries, received, drained>>

\* Variant of pull_events: `if let` in place of `while let`.
pull_one(ch) ==
    IF ch = <<>> THEN [events |-> <<>>, rest |-> <<>>]
    ELSE [events |-> <<Head(ch)>>, rest |-> Tail(ch)]

\* MqttServerManager::pull_events: try_recv until the channel is empty; the
\* Vec holds the events in the order try_recv gave them.
pull_events(ch) == [events |-> ch, rest |-> <<>>]

\* TemplateApp::update: for event in self.manager.pull_events() { .. }
PullEvents ==
    LET r == pull_events(channel)
    IN /\ channel' = r.rest
       /\ drained' = drained \o r.events
       /\ last' = [NoStep EXCEPT !.op = "pull_events", !.events = r.events,
                                 !.again = (last.op = "pull_events")]
       /\ prev' = Summary(last)
       /\ UNCHANGED <<servers, loops, entries, received>>

\* ------------------------------------------------------------ Server::poll_iter
Running(sid) == loops[sid].thread = "Running"

Polled(sid, item) ==
    [NoStep EXCEPT !.op = "poll_iter", !.id = loops[sid].id, !.sid = sid, !.item = item]

\* Variant of poll_iter: without the outer `loop`, the end of the iterator
\* ends the function.
poll_iter_once(item) ==
    IF item \in {"OutgoingDisconnect", "EndOfIter"} THEN "Terminated" ELSE "Running"

\* The match in poll_iter: only Ok(Event::Outgoing(Outgoing::Disconnect)) has
\* a `return`; the end of connection.iter() falls into the next round of the
\* outer `loop`.
poll_iter(item) ==
    IF item = "OutgoingDisconnect" THEN "Terminated" ELSE "Running"

\* Variant of send: the event goes to the front of the queue.
send_front(ch, ev) == <<ev>> \o ch

\* Variant of send: a single slot, the new event takes the place of the old.
send_replace(ch, ev) == <<ev>>

\* Sender::send on a channel whose Receiver lives: the event joins the end.
send(ch, ev) == Append(ch, ev)

\* Ok(Event::Outgoing(Outgoing::Disconnect)) => return
PollDisconnect(sid) ==
    /\ Running(sid)
    /\ loops[sid].disconnect
    /\ loops' = [loops EXCEPT ![sid].thread = poll_iter("OutgoingDisconnect"),
                              ![sid].disconnect = FALSE]
    /\ last' = Polled(sid, "OutgoingDisconnect")
    /\ prev' = Summary(last)
    /\ UNCHANGED <<servers, channel, entries, received, drained>>

\* Variant of MqttServerManagerEvent: client is not filled in.
MqttServerManagerEventNoClient(id, topic, payload, sid, n) ==
    [client |-> 0, topic |-> topic, payload |-> payload, sid |-> sid, n |-> n]

\* MqttServerManagerEvent { event: message, client: id }: the publish as it
\* was read and the id the thread was given.
MqttServerManagerEvent(id, topic, payload, sid, n) ==
    [client |-> id, topic |-> topic, payload |-> payload, sid |-> sid, n |-> n]

\* ctx.request_repaint() stands after the `if let Err(..) = channel.send(..)`,
\* not inside it: it runs whatever send returned.
request_repaint(repaints, sent) == repaints + 1

\* Ok(Event::Incoming(Incoming::Publish(message))) => channel.send(..), whose
\* error (the Receiver is gone) is logged.  In the event, sid and n tell which
\* thread sent it and as which of its publishes (observation); sent and
\* repaints count the thread's sends that returned Ok and its
\* request_repaint calls (observation).
PollPublish(sid, topic, payload) ==
    /\ Running(sid)
    /\ Len(received[sid]) < MaxRecv
    /\ loops[sid].orphan \/ Len(channel) < MaxQueue
    /\ received' = [received EXCEPT ![sid] =
                       Append(@, [topic |-> topic, payload |-> payload])]
    /\ channel' = IF loops[sid].orphan THEN channel
                  ELSE send(channel,
                            MqttServerManagerEvent(loops[sid].id, topic, payload,
                                                   sid, Len(received[sid]) + 1))
    /\ loops' = [loops EXCEPT
                    ![sid].thread = poll_iter("IncomingPublish"),
                    ![sid].sent = IF loops[sid].orphan THEN @ ELSE @ + 1,
                    ![sid].repaints = request_repaint(@, ~loops[sid].orphan)]
    /\ last' = [Polled(sid, "IncomingPublish") EXCEPT !.ok = ~loops[sid].orphan]
    /\ prev' = Summary(last)
    /\ UNCHANGED <<servers, entries, drained>>

\* Err(e) => log, _ => log, and the end of connection.iter(), after which the
\* outer loop starts the next iteration.
PollOther(sid, item) ==
    /\ Running(sid)
    /\ loops' = [loops EXCEPT ![sid].thread = poll_iter(item)]
    /\ last' = Polled(sid, item)
    /\ prev' = Summary(last)
    /\ UNCHANGED <<servers, channel, entries, received, drained>>

\* "Reset App Settings": *self = Self::default().  The old manager is dropped
\* with its map, its Servers (no disconnect is sent) and its Receiver; the
\* threads live on with Senders of a channel nobody receives from.
Reset ==
    /\ servers' = {}
    /\ channel' = <<>>
    /\ entries' = {}
    /\ drained' = <<>>
    /\ loops' = [s \in Sids |->
                    IF loops[s].thread = "NotStarted" THEN loops[s]
                    ELSE [loops[s] EXCEPT !.orphan = TRUE]]
    /\ last' = [NoStep EXCEPT !.op = "reset"]
    /\ prev' = Summary(last)
    /\ UNCHANGED received

\* selectable_list: the "c" button exists only while the id is not a key of
\* manager.servers(), the "d" button only while it is.
ClickConnect(id) == ~contains_key(servers, id) /\ Connect(id)

ClickDisconnect(id, ok) == contains_key(servers, id) /\ Disconnect(id, ok)

\* ------------------------------------------------------------ MqttServers
\* MqttServers::add_server: let id = fastrand::u32(0..u32::MAX);
\* self.servers.insert(id, server).  The id is whatever the generator gives;
\* the server is a fresh MqttServer::new().
AddServer(id) ==
    /\ entries' = HashMapInsert(entries, [id |-> id, conf |-> "new"])
    /\ last' = [NoStep EXCEPT !.op = "add_server", !.id = id]
    /\ prev' = Summary(last)
    /\ UNCHANGED <<servers, loops, channel, received, drained>>

\* edit_windows: the text fields of an entry (host, port, alias) take input
\* while its id is not a key of manager.servers().
EditServer(id) ==
    /\ contains_key(entries, id)
    /\ ~contains_key(servers, id)
    /\ entries' = HashMapInsert(entries, [id |-> id, conf |-> "edited"])
    /\ last' = [NoStep EXCEPT !.op = "edit", !.id = id]
    /\ prev' = Summary(last)
    /\ UNCHANGED <<servers, loops, channel, received, drained>>

\* edit_windows, "Delete": manager.disconnect(id); self.servers.remove(&id).
DeleteServer(id, ok) ==
    LET r == disconnect(servers, id, ok)
    IN /\ contains_key(entries, id)
       /\ servers' = r.servers
       /\ loops' = IF r.sid = 0 THEN loops
                   ELSE [loops EXCEPT ![r.sid].disconnect = @ \/ ok]
       /\ entries' = HashMapRemove(entries, id)
       /\ last' = [NoStep EXCEPT !.op = "delete", !.id = id, !.sid = r.sid,
                                 !.calls = r.calls,
                                 !.ok = (r.calls = <<>>) \/ ok]
       /\ prev' = Summary(last)
       /\ UNCHANGED <<channel, received, drained>>

\* selectable_list runs over the entries of MqttServers::servers: the "c" and
\* "d" buttons exist for the ids of entries only.
ListConnect(id) == contains_key(entries, id) /\ ClickConnect(id)

ListDisconnect(id, ok) == contains_key(entries, id) /\ ClickDisconnect(id, ok)

\* ------------------------------------------------------------ specifications
\* The calls the application makes on the manager's registry and Servers.
NextSubs ==
    \/ \E id \in Keys : Connect(id)
    \/ \E id \in Keys, ok \in BOOLEAN : Disconnect(id, ok)
    \/ \E id \in Keys, subs \in SubsLists, fails \in SUBSET Topics :
          SyncSubs(id, subs, fails)
    \/ \E id \in Keys, topic \in Topics, ok \in BOOLEAN : Publish(id, topic, ok)

\* The lifecycle of the Servers with their threads and the channel.
NextEvents ==
    \/ \E id \in Keys : Connect(id)
    \/ \E id \in Keys, ok \in BOOLEAN : Disconnect(id, ok)
    \/ PullEvents
    \/ Reset
    \/ \E sid \in Sids : PollDisconnect(sid)
    \/ \E sid \in Sids, topic \in Topics, payload \in Payloads :
          PollPublish(sid, topic, payload)
    \/ \E sid \in Sids, item \in {"Err", "Other", "EndOfIter"} : PollOther(sid, item)

\* The same lifecycle driven through the buttons of selectable_list only.
NextApp ==
    \/ \E id \in Keys : ClickConnect(id)
    \/ \E id \in Keys, ok \in BOOLEAN : ClickDisconnect(id, ok)
    \/ PullEvents
    \/ \E sid \in Sids : PollDisconnect(sid)
    \/ \E sid \in Sids, topic \in Topics, payload \in Payloads :
          PollPublish(sid, topic, payload)
    \/ \E sid \in Sids, item \in {"Err", "Other", "EndOfIter"} : PollOther(sid, item)

Next == NextSubs \/ NextEvents

\* Every behaviour of SpecSubs and of SpecEvents is a behaviour of Spec: the
\* threads never touch servers, and sync_subs and publish never touch the
\* threads or the channel.
Spec == Init /\ [][Next]_vars

SpecSubs == Init /\ [][NextSubs]_vars

SpecEvents == Init /\ [][NextEvents]_vars

SpecApp == Init /\ [][NextApp]_vars

\* The entries of the application's list and what the list's buttons do.
NextKeys ==
    \/ \E id \in Keys : AddServer(id)
    \/ \E id \in Keys : EditServer(id)
    \/ \E id \in Keys, ok \in BOOLEAN : DeleteServer(id, ok)
    \/ \E id \in Keys : ListConnect(id)
    \/ \E id \in Keys, ok \in BOOLEAN : ListDisconnect(id, ok)

SpecKeys == Init /\ [][NextKeys]_vars

\* The manager's calls and the threads' steps that do not send.
NextLive ==
    \/ \E id \in Keys : Connect(id)
    \/ \E id \in Keys, ok \in BOOLEAN : Disconnect(id, ok)
    \/ \E sid \in Sids : PollDisconnect(sid)
    \/ \E sid \in Sids, item \in {"Err", "Other", "EndOfIter"} : PollOther(sid, item)

\* A thread is scheduled, and the Connection hands it the
\* Outgoing::Disconnect of a request that Client::disconnect accepted.
SpecLive ==
    /\ Init /\ [][NextLive]_vars
    /\ \A sid \in Sids : WF_vars(PollDisconnect(sid))


\* ------------------------------------------------------------------ claims
\* The Server that the last sync_subs call worked on.
SyncedServer == get(servers, last.id)

SyncReached == last.op = "sync_subs" /\ last.sid # 0

\* The last step repeats the sync_subs call of the step before it: the same
\* Server, the same desired list.
SyncTwice ==
    /\ SyncReached
    /\ prev.sync /\ prev.sid = last.sid /\ prev.subs = last.subs

FailedCalls(op) ==
    {last.calls[i].topic :
        i \in {j \in 1..Len(last.calls) : last.calls[j].op = op /\ ~last.calls[j].ok}}

\* C1: a topic whose subscribe call failed during sync_subs is not in
\* current_subs after the call.  (The code inserts before it calls.)
C1_FailedSubscribeNotTracked ==
    SyncReached =>
        \A t \in FailedCalls("subscribe") : t \notin SyncedServer.current_subs

\* C2: a topic whose unsubscribe call failed during sync_subs is still in
\* current_subs after the call.  (The code removes before it calls.)
C2_FailedUnsubscribeStillTracked ==
    SyncReached =>
        \A t \in FailedCalls("unsubscribe") : t \in SyncedServer.current_subs

\* C3: after a sync_subs in which calls failed, the next sync_subs with the
\* same desired list calls the handle for exactly the topics that failed.
C3_RetryReissuesFailed ==
    (SyncTwice /\ ~prev.ok) => CallTopics(last.calls) = prev.failed

\* C4: when sync_subs returns Ok, current_subs equals the desired list as a
\* set, whatever current_subs was and also with duplicates in the list.
C4_OkSyncReachesDesired ==
    (SyncReached /\ last.ok) => SyncedServer.current_subs = Range(last.subs)

C4_Witness ==
    /\ SyncReached /\ last.ok
    /\ Len(last.subs) > Cardinality(Range(last.subs))
    /\ last.to_unsub # <<>>
    /\ Len(last.calls) = 2

\* C5: to_sub is desired minus current and to_unsub is current minus desired,
\* so to_sub is disjoint from current, to_unsub is within current, and
\* current plus to_sub minus to_unsub is desired.
C5_ReconcileIsSetDifference ==
    SyncReached =>
        LET current == last.before
            desired == Range(last.subs)
            adds == Range(last.to_sub)
            removes == Range(last.to_unsub)
        IN /\ adds = desired \ current
           /\ removes = current \ desired
           /\ adds \cap current = {}
           /\ removes \subseteq current
           /\ (current \cup adds) \ removes = desired

C5_Witness ==
    /\ SyncReached
    /\ last.before # {}
    /\ last.to_sub # <<>> /\ last.to_unsub # <<>>

\* C6: the second of two sync_subs calls in a row with the same list calls
\* the handle not at all, whatever the outcome of the first call's calls.
C6_SecondSyncIssuesNothing == SyncTwice => last.calls = <<>>

\* C7: after disconnect(id) the id is not a key of the registry, whether or
\* not the handle accepted the disconnect request.
C7_DisconnectedKeyAbsent ==
    last.op = "disconnect" => ~contains_key(servers, last.id)

C7_Witness ==
    /\ last.op = "disconnect" /\ last.sid # 0 /\ ~last.ok
    /\ servers # {}

\* C8: the registry never holds two Servers under the same key.
C8_OneServerPerKey ==
    \A a \in servers, b \in servers : a.id = b.id => a = b

C8_Witness ==
    /\ last.op = "connect" /\ last.replaced # 0
    /\ contains_key(servers, last.id)

\* C9: at most one poll_iter thread that has not returned carries a given id.
C9_OneLiveLoopPerKey ==
    \A a \in Sids, b \in Sids :
        (Running(a) /\ Running(b) /\ loops[a].id = loops[b].id) => a = b

\* C10: disconnect(id) with id not a key of the registry calls no handle and
\* changes neither the registry, nor any Server or thread, nor the channel.
C10_DisconnectUnknownIsNoOp ==
    [][(last'.op = "disconnect" /\ ~contains_key(servers, last'.id)) =>
          /\ servers' = servers
          /\ loops' = loops
          /\ channel' = channel
          /\ last'.calls = <<>> /\ last'.ok]_vars

C10_Witness ==
    /\ last.op = "disconnect" /\ last.sid = 0
    /\ servers # {}
    /\ channel # <<>>

\* The events of thread sid in a sequence of events, in the sequence's order.
FromLoop(events, sid) == SelectSeq(events, LAMBDA e : e.sid = sid)

\* The publish an event was made from.
Message(e) == [topic |-> e.topic, payload |-> e.payload]

\* C11: the events one poll_iter thread sent come out of pull_events, over
\* all its calls, in the order in which the thread read their publishes.
C11_PerLoopFifo ==
    \A i \in 1..Len(drained), j \in 1..Len(drained) :
        (i < j /\ drained[i].sid = drained[j].sid) => drained[i].n < drained[j].n

C11_Witness ==
    /\ last.op = "pull_events" /\ Len(last.events) = 1
    /\ Len(drained) = 2
    /\ drained[1].sid = drained[2].sid
    /\ drained[1].topic # drained[2].topic

\* C12: with the Receiver alive, each publish a thread has read is exactly
\* once among the events pull_events returned and those still in the channel,
\* whatever the interleaving of the threads and the drains.
C12_ExactlyOnce ==
    \A sid \in Sids :
        ~loops[sid].orphan =>
            LET mine == FromLoop(drained \o channel, sid)
            IN /\ Len(mine) = Len(received[sid])
               /\ \A n \in 1..Len(received[sid]) :
                     \E i \in 1..Len(mine) :
                         /\ mine[i].n = n
                         /\ Message(mine[i]) = received[sid][n]
                         /\ mine[i].client = loops[sid].id

C12_Witness ==
    /\ Running(1) /\ Running(2)
    /\ ~loops[1].orphan /\ ~loops[2].orphan
    /\ Len(received[1]) = 2 /\ Len(received[2]) = 2
    /\ Len(drained) = 4
    /\ drained[1].sid = 1 /\ drained[2].sid = 2 /\ drained[3].sid = 1

\* C13: pull_events returns all that the channel held and leaves it empty,
\* so a second call right after the first returns nothing.
C13_PullEventsDrainsAll ==
    [][last'.op = "pull_events" =>
          /\ last'.events = channel
          /\ channel' = <<>>
          /\ (last.op = "pull_events" => last'.events = <<>>)]_vars

C13_Witness ==
    /\ last.op = "pull_events" /\ last.again
    /\ last.events = <<>>
    /\ Len(drained) = 2

\* C14: a poll_iter thread ends only in the step in which it reads
\* Outgoing::Disconnect; an Err item, the end of the iterator, a publish whose
\* send failed and any other event leave it running.
C14_OnlyDisconnectTerminates ==
    [][\A sid \in Sids :
          /\ (Running(sid) /\ loops'[sid].thread # "Running") =>
                 /\ last'.op = "poll_iter" /\ last'.sid = sid
                 /\ last'.item = "OutgoingDisconnect"
          /\ (Running(sid) /\ last'.op = "poll_iter" /\ last'.sid = sid
                /\ last'.item # "OutgoingDisconnect") =>
                 loops'[sid].thread = "Running"]_vars

C14_Witness ==
    /\ last.op = "poll_iter" /\ last.item = "IncomingPublish" /\ ~last.ok
    /\ Running(last.sid)
    /\ \E sid \in Sids : loops[sid].thread = "Terminated"

\* C15: once disconnect(id) has removed a Server from the registry, the
\* thread of that Server eventually returns from poll_iter.
C15_DisconnectStopsLoop ==
    \A sid \in Sids :
        (last.op = "disconnect" /\ last.sid = sid) ~> (loops[sid].thread = "Terminated")

\* C16: publish and sync_subs on an id that is not a key of the registry
\* return no error, call no handle and change neither the registry, nor any
\* Server or thread, nor the channel.
C16_UnknownKeyIgnored ==
    [][(last'.op \in {"publish", "sync_subs"} /\ ~contains_key(servers, last'.id)) =>
          /\ servers' = servers
          /\ loops' = loops
          /\ channel' = channel
          /\ last'.calls = <<>> /\ last'.ok /\ last'.sid = 0]_vars

C16_Witness ==
    /\ last.op = "sync_subs" /\ last.sid = 0
    /\ last.subs # <<>>
    /\ prev.sync /\ ~contains_key(servers, last.id)
    /\ \E e \in servers : e.current_subs # {}

\* C17: a connect whose connection cannot be initiated returns an error and
\* leaves no Server under the id.
C17_ConnectFailsSynchronously ==
    (last.op = "connect" /\ ~last.valid) =>
        (~last.ok /\ ~contains_key(servers, last.id))

\* C18: the id add_server picks is the id of no entry, so the insert replaces
\* no entry.
C18_NewKeyIsUnused ==
    [][last'.op = "add_server" =>
          /\ ~contains_key(entries, last'.id)
          /\ entries \subseteq entries']_vars

\* The topics of the calls of one kind among the first n calls of a call log.
Called(calls, op, n) == {calls[i].topic : i \in {j \in 1..n : calls[j].op = op}}

\* C19: one sync_subs call calls the handle for every topic of to_sub and of
\* to_unsub, whichever of the calls fail, and current_subs follows every call
\* that succeeded.
C19_CallsIndependent ==
    SyncReached =>
        /\ CallTopics(last.calls) = Range(last.to_sub) \cup Range(last.to_unsub)
        /\ \A i \in 1..Len(last.calls) :
              last.calls[i].ok =>
                  IF last.calls[i].op = "subscribe"
                  THEN last.calls[i].topic \in SyncedServer.current_subs
                  ELSE last.calls[i].topic \notin SyncedServer.current_subs

\* C20: Client::subscribe is called for a topic only while the topic is not
\* in current_subs, Client::unsubscribe only while it is, so a list that
\* names a topic several times has one subscribe call for it in a sync_subs.
C20_GuardedCalls ==
    SyncReached =>
        \A i \in 1..Len(last.calls) :
            LET c == last.calls[i]
                tracked == (last.before \cup Called(last.calls, "subscribe", i - 1))
                              \ Called(last.calls, "unsubscribe", i - 1)
            IN IF c.op = "subscribe" THEN c.topic \notin tracked
               ELSE c.topic \in tracked

C20_Witness ==
    /\ SyncReached /\ last.ok
    /\ Len(last.to_sub) = 2 /\ last.to_sub[1] = last.to_sub[2]
    /\ last.to_unsub # <<>>
    /\ Len(last.calls) = 2

\* C21: only the step of a thread that reads an incoming publish adds to the
\* channel, and what it adds is one event with the id of that thread's Server
\* and the topic and payload of the publish; a step that reads anything else
\* leaves the channel as it was.
C21_OnlyPublishIsForwarded ==
    [][/\ (last'.op = "poll_iter" /\ last'.item # "IncomingPublish") =>
              channel' = channel
       /\ Len(channel') > Len(channel) =>
              /\ last'.op = "poll_iter" /\ last'.item = "IncomingPublish"
              /\ Len(channel') = Len(channel) + 1
              /\ SubSeq(channel', 1, Len(channel)) = channel
              /\ LET e == channel'[Len(channel')]
                     sid == last'.sid
                 IN /\ e.client = loops[sid].id
                    /\ e.sid = sid
                    /\ Message(e) = received'[sid][Len(received'[sid])]]_vars

C21_Witness ==
    /\ last.op = "poll_iter" /\ last.item = "IncomingPublish" /\ last.ok
    /\ Len(channel) = 2
    /\ channel[1].client # channel[2].client
    /\ channel[2].client = loops[last.sid].id
    /\ loops[last.sid].id # last.sid

\* C22: a thread has called request_repaint as many times as it has sent an
\* event into the channel with success.
C22_RepaintPerForwardedEvent ==
    \A sid \in Sids : loops[sid].repaints = loops[sid].sent

\* C23: the Server a connect creates has an empty current_subs, also under
\* an id that was connected before, and the first sync_subs on it calls
\* Client::subscribe for every topic of the list and Client::unsubscribe for
\* none.
C23_FirstSyncSubscribesAll ==
    /\ last.op = "connect" => get(servers, last.id).current_subs = {}
    /\ (SyncReached /\ last.first) =>
          /\ last.before = {}
          /\ Called(last.calls, "subscribe", Len(last.calls)) = Range(last.subs)
          /\ Called(last.calls, "unsubscribe", Len(last.calls)) = {}

====
